---- MODULE Spec2Model ----
(***************************************************************************)
(* TXTDirect: the placeholder interpolation of src/placeholders.go         *)
(* (parsePlaceholders) and the directive parser of the same file (parse,   *)
(* removeArrayFromArray).                                                  *)
(*                                                                         *)
(* A Go string is a sequence of one-character strings, so that scanning,   *)
(* slicing, replacing, escaping and splitting are computed character by    *)
(* character as the code (and the standard library it calls) computes them.*)
(***************************************************************************)
EXTENDS Integers, Sequences, FiniteSets, TLC

\* ------------------------------------------------------------------------
\* Characters
\* ------------------------------------------------------------------------

LowerSeq ==
  <<"a","b","c","d","e","f","g","h","i","j","k","l","m",
    "n","o","p","q","r","s","t","u","v","w","x","y","z">>

UpperSeq ==
  <<"A","B","C","D","E","F","G","H","I","J","K","L","M",
    "N","O","P","Q","R","S","T","U","V","W","X","Y","Z">>

DigitSeq ==
  <<"0","1","2","3","4","5","6","7","8","9">>

Range(f) ==
  { f[i] : i \in DOMAIN f }

Lower == Range(LowerSeq)

Upper == Range(UpperSeq)

Letters == Lower \cup Upper

Digits == Range(DigitSeq)

\* \w of the regular expressions: [0-9A-Za-z_]
WordChars == Letters \cup Digits \cup {"_"}

\* [~>?] of PlaceholderRegex
Sigils == {"~", ">", "?"}

DigitVal(c) ==
  (CHOOSE i \in 1..10 : DigitSeq[i] = c) - 1

ToLower(c) ==
  IF c \in Upper THEN LowerSeq[CHOOSE i \in 1..26 : UpperSeq[i] = c] ELSE c

\* ------------------------------------------------------------------------
\* package strings / strconv / fmt
\* ------------------------------------------------------------------------

\* s[i:] has prefix p (i is 1-based)
HasPrefixAt(s, i, p) ==
  /\ i + Len(p) - 1 <= Len(s)
  /\ SubSeq(s, i, i + Len(p) - 1) = p

\* strings.HasPrefix
HasPrefix(s, p) ==
  HasPrefixAt(s, 1, p)

\* strings.Index, 1-based; 0 when old does not occur
Index(s, old) ==
  IF \E i \in 1..Len(s) : HasPrefixAt(s, i, old)
  THEN CHOOSE i \in 1..Len(s) :
         /\ HasPrefixAt(s, i, old)
         /\ \A j \in 1..(i - 1) : ~HasPrefixAt(s, j, old)
  ELSE 0

\* strings.LastIndex, 1-based; 0 when old does not occur
LastIndex(s, old) ==
  IF \E i \in 1..Len(s) : HasPrefixAt(s, i, old)
  THEN CHOOSE i \in 1..Len(s) :
         /\ HasPrefixAt(s, i, old)
         /\ \A j \in (i + 1)..Len(s) : ~HasPrefixAt(s, j, old)
  ELSE 0

\* strings.Contains
Contains(s, old) ==
  Index(s, old) # 0

RECURSIVE ReplaceFrom(_, _, _, _)
ReplaceFrom(s, old, new, i) ==
  IF i > Len(s) THEN <<>>
  ELSE IF HasPrefixAt(s, i, old)
       THEN new \o ReplaceFrom(s, old, new, i + Len(old))
       ELSE <<s[i]>> \o ReplaceFrom(s, old, new, i + 1)

\* strings.Replace(s, old, new, -1) for a non-empty old: the non-overlapping
\* occurrences of old, left to right, each replaced by new
Replace(s, old, new) ==
  ReplaceFrom(s, old, new, 1)

RECURSIVE Split(_, _)
\* strings.Split(s, sep) for a one-character sep
Split(s, sep) ==
  LET i == Index(s, sep)
  IN IF i = 0 THEN <<s>>
     ELSE <<SubSeq(s, 1, i - 1)>> \o Split(SubSeq(s, i + 1, Len(s)), sep)

RECURSIVE Join(_, _)
\* strings.Join
Join(values, sep) ==
  IF Len(values) = 0 THEN <<>>
  ELSE IF Len(values) = 1 THEN values[1]
  ELSE values[1] \o sep \o Join(Tail(values), sep)

\* strings.EqualFold on ASCII text
EqualFold(a, b) ==
  /\ Len(a) = Len(b)
  /\ \A i \in 1..Len(a) : ToLower(a[i]) = ToLower(b[i])

AllDigits(s) ==
  /\ Len(s) > 0
  /\ \A i \in 1..Len(s) : s[i] \in Digits

RECURSIVE AtoiVal(_)
AtoiVal(s) ==
  IF Len(s) = 0 THEN 0
  ELSE AtoiVal(SubSeq(s, 1, Len(s) - 1)) * 10 + DigitVal(s[Len(s)])

\* strconv.Atoi on text of word characters: an error unless every character
\* is a digit (a sign is no word character; the digit strings of the model
\* are far shorter than the 19 digits that overflow an int)
Atoi(s) ==
  IF AllDigits(s) THEN [ok |-> TRUE, n |-> AtoiVal(s)]
  ELSE [ok |-> FALSE, n |-> 0]

RECURSIVE Itoa(_)
\* the %d of fmt.Sprintf for n >= 0
Itoa(n) ==
  IF n < 10 THEN <<DigitSeq[n + 1]>>
  ELSE Itoa(n \div 10) \o <<DigitSeq[(n % 10) + 1]>>

\* ------------------------------------------------------------------------
\* package net/url and package path, on the characters the model uses
\* ------------------------------------------------------------------------

\* RFC 3986 unreserved characters: never escaped
Unreserved(c) ==
  c \in Letters \cup Digits \cup {"-", "_", ".", "~"}

\* "%XX" of a character
HexOf(c) ==
  CASE c = "{" -> <<"%", "7", "B">>
    [] c = "}" -> <<"%", "7", "D">>
    [] c = "/" -> <<"%", "2", "F">>
    [] c = "?" -> <<"%", "3", "F">>
    [] c = "=" -> <<"%", "3", "D">>
    [] c = "&" -> <<"%", "2", "6">>
    [] c = ":" -> <<"%", "3", "A">>
    [] c = "$" -> <<"%", "2", "4">>
    [] c = ">" -> <<"%", "3", "E">>
    [] c = "," -> <<"%", "2", "C">>
    [] c = "%" -> <<"%", "2", "5">>

Escapable ==
  {"{", "}", "/", "?", "=", "&", ":", "$", ">", ",", "%"}

RECURSIVE QueryEscape(_)
\* url.QueryEscape: everything but the unreserved characters is escaped
QueryEscape(s) ==
  IF Len(s) = 0 THEN <<>>
  ELSE (IF Unreserved(s[1]) THEN <<s[1]>> ELSE HexOf(s[1]))
       \o QueryEscape(Tail(s))

RECURSIVE EscapePath(_)
\* URL.EscapedPath of a URL without RawPath: in a path, $ & + , / : ; = @
\* stay as they are
EscapePath(s) ==
  IF Len(s) = 0 THEN <<>>
  ELSE (IF Unreserved(s[1]) \/ s[1] \in {"$", "&", ",", "/", ":", "="}
        THEN <<s[1]>> ELSE HexOf(s[1]))
       \o EscapePath(Tail(s))

RECURSIVE QueryUnescape(_)
\* url.QueryUnescape: "%XX" decoded, an error for a "%" that two hex digits
\* do not follow
QueryUnescape(s) ==
  IF Len(s) = 0 THEN [ok |-> TRUE, s |-> <<>>]
  ELSE IF s[1] = "%"
       THEN IF /\ Len(s) >= 3
               /\ \E c \in Escapable : HexOf(c) = SubSeq(s, 1, 3)
            THEN LET c == CHOOSE c \in Escapable : HexOf(c) = SubSeq(s, 1, 3)
                     rest == QueryUnescape(SubSeq(s, 4, Len(s)))
                 IN [ok |-> rest.ok, s |-> <<c>> \o rest.s]
            ELSE [ok |-> FALSE, s |-> <<>>]
       ELSE LET rest == QueryUnescape(Tail(s))
            IN [ok |-> rest.ok, s |-> <<s[1]>> \o rest.s]

RECURSIVE QueryGet(_, _)
\* URL.Query().Get(name): the first value of the key, "" without one; a
\* pair with an empty key or a bad escape is skipped
QueryGet(query, name) ==
  IF Len(query) = 0 THEN <<>>
  ELSE LET amp == Index(query, <<"&">>)
           pair == IF amp = 0 THEN query ELSE SubSeq(query, 1, amp - 1)
           rest == IF amp = 0 THEN <<>> ELSE SubSeq(query, amp + 1, Len(query))
           eq == Index(pair, <<"=">>)
           key == QueryUnescape(IF eq = 0 THEN pair ELSE SubSeq(pair, 1, eq - 1))
           val == QueryUnescape(IF eq = 0 THEN <<>>
                                ELSE SubSeq(pair, eq + 1, Len(pair)))
       IN IF Len(pair) > 0 /\ key.ok /\ val.ok /\ key.s = name
          THEN val.s
          ELSE QueryGet(rest, name)

\* URL.RequestURI of a URL without Opaque and ForceQuery
RequestURI(r) ==
  (IF Len(r.Path) = 0 THEN <<"/">> ELSE EscapePath(r.Path))
  \o (IF Len(r.RawQuery) = 0 THEN <<>> ELSE <<"?">> \o r.RawQuery)

\* URL.Port: what follows the last ':' of URL.Host, when it is digits only
Port(r) ==
  LET colon == LastIndex(r.URLHost, <<":">>)
      p == SubSeq(r.URLHost, colon + 1, Len(r.URLHost))
  IN IF colon # 0 /\ \A i \in 1..Len(p) : p[i] \in Digits THEN p ELSE <<>>

\* path.Split: the path up to and with its last '/', and what follows
PathSplit(p) ==
  LET i == LastIndex(p, <<"/">>)
  IN [dir |-> SubSeq(p, 1, i), file |-> SubSeq(p, i + 1, Len(p))]

\* Request.Cookie(name): the first cookie of that name
Cookie(r, name) ==
  IF \E i \in 1..Len(r.Cookies) : r.Cookies[i].Name = name
  THEN [ok |-> TRUE,
        Value |-> r.Cookies[CHOOSE i \in 1..Len(r.Cookies) :
                     /\ r.Cookies[i].Name = name
                     /\ \A j \in 1..(i - 1) : r.Cookies[j].Name # name].Value]
  ELSE [ok |-> FALSE, Value |-> <<>>]

\* ------------------------------------------------------------------------
\* PlaceholderRegex
\* ------------------------------------------------------------------------

\* the end of the run of word characters that starts at j
WordEnd(s, j) ==
  CHOOSE k \in j..(Len(s) + 1) :
    /\ k = Len(s) + 1 \/ s[k] \notin WordChars
    /\ \A m \in j..(k - 1) : s[m] \in WordChars

\* {[~>?]?\w+} matched at i: the index of the closing brace, 0 for no match
MatchEnd(s, i) ==
  IF s[i] # "{" THEN 0
  ELSE LET j == IF i + 1 <= Len(s) /\ s[i + 1] \in Sigils THEN i + 2 ELSE i + 1
           k == WordEnd(s, j)
       IN IF k > j /\ k <= Len(s) /\ s[k] = "}" THEN k ELSE 0

RECURSIVE FindAllFrom(_, _)
FindAllFrom(s, i) ==
  IF i > Len(s) THEN <<>>
  ELSE LET e == MatchEnd(s, i)
       IN IF e = 0 THEN FindAllFrom(s, i + 1)
          ELSE <<SubSeq(s, i, e)>> \o FindAllFrom(s, e + 1)

\* PlaceholderRegex.FindAllStringSubmatch(input, -1): the leftmost
\* non-overlapping matches, in order, duplicates kept
PlaceholderRegex(s) ==
  FindAllFrom(s, 1)

\* ------------------------------------------------------------------------
\* The body of the loop of parsePlaceholders, branch by branch.  in is the
\* current value of input, ph is placeholder[0], r the request.
\* ------------------------------------------------------------------------

Tok(body) ==
  <<"{">> \o body \o <<"}">>

\* placeholder[0][1 : len(placeholder[0])-1]
Body(ph) ==
  SubSeq(ph, 2, Len(ph) - 1)

\* placeholder[0][2 : len(placeholder[0])-1]
Name(ph) ==
  SubSeq(ph, 3, Len(ph) - 1)

kwUri == <<"u","r","i">>
kwDir == <<"d","i","r">>
kwFile == <<"f","i","l","e">>
kwHost == <<"h","o","s","t">>
kwHostonly == <<"h","o","s","t","o","n","l","y">>
kwMethod == <<"m","e","t","h","o","d">>
kwPath == <<"p","a","t","h">>
kwPathEscaped == <<"p","a","t","h","_","e","s","c","a","p","e","d">>
kwPort == <<"p","o","r","t">>
kwQuery == <<"q","u","e","r","y">>
kwQueryEscaped == <<"q","u","e","r","y","_","e","s","c","a","p","e","d">>
kwUriEscaped == <<"u","r","i","_","e","s","c","a","p","e","d">>
kwUser == <<"u","s","e","r">>
kwLabel == <<"l","a","b","e","l">>

\* "Removes port from host": what precedes the first ':' of r.Host
HostOnly(r) ==
  IF Contains(r.Host, <<":">>) THEN Split(r.Host, <<":">>)[1] ELSE r.Host

\* the {user} case: BasicAuth's user is "" when ok is false
UserCase(in, ph, r) ==
  LET user == IF r.Auth.ok THEN r.Auth.user ELSE <<>>
      s == IF ~r.Auth.ok THEN Replace(in, ph, <<>>) ELSE in
  IN Replace(s, ph, user)

\* switch placeholder[0] { ... }
KeywordSwitch(in, ph, r) ==
  CASE ph = Tok(kwUri) -> Replace(in, ph, RequestURI(r))
    [] ph = Tok(kwDir) -> Replace(in, ph, PathSplit(r.Path).dir)
    [] ph = Tok(kwFile) -> Replace(in, ph, PathSplit(r.Path).file)
    [] ph = Tok(kwHost) -> Replace(in, ph, r.Host)
    [] ph = Tok(kwHostonly) -> Replace(in, ph, HostOnly(r))
    [] ph = Tok(kwMethod) -> Replace(in, ph, r.Method)
    [] ph = Tok(kwPath) -> Replace(in, ph, r.Path)
    [] ph = Tok(kwPathEscaped) -> Replace(in, ph, QueryEscape(r.Path))
    [] ph = Tok(kwPort) -> Replace(in, ph, Port(r))
    [] ph = Tok(kwQuery) -> Replace(in, ph, r.RawQuery)
    [] ph = Tok(kwQueryEscaped) -> Replace(in, ph, QueryEscape(r.RawQuery))
    [] ph = Tok(kwUriEscaped) -> Replace(in, ph, QueryEscape(RequestURI(r)))
    [] ph = Tok(kwUser) -> UserCase(in, ph, r)
    [] OTHER -> in

\* what one branch leaves: st is "ok" (the loop goes on), "error" (the
\* function returns "", err) or "panic" (the goroutine panics)
Ok(in) ==
  [st |-> "ok", input |-> in, err |-> "nil"]

Fail(err) ==
  [st |-> "error", input |-> <<>>, err |-> err]

Panic ==
  [st |-> "panic", input |-> <<>>, err |-> "nil"]

LabelTooGreat_AtLast(n, labels) ==
  n >= Len(labels)

\* n > len(labels)
LabelTooGreat(n, labels) ==
  n > Len(labels)

\* if strings.HasPrefix(placeholder[0], "{label") { ... }
LabelBranch(in, ph, r) ==
  IF ~HasPrefix(ph, <<"{">> \o kwLabel) THEN Ok(in)
  ELSE LET n == Atoi(SubSeq(ph, 7, Len(ph) - 1))
           labels == Split(HostOnly(r), <<".">>)
       IN IF ~n.ok THEN Fail("atoi")
          ELSE IF n.n < 1 THEN Fail("label0")
          ELSE IF LabelTooGreat(n.n, labels) THEN Fail("labelTooGreat")
          ELSE Ok(Replace(in, ph, labels[n.n]))

HeaderMatches_Exact(key, want) ==
  key = want

\* strings.EqualFold(key, want)
HeaderMatches(key, want) ==
  EqualFold(key, want)

RECURSIVE HeaderLoop(_, _, _, _, _)
\* for key, values := range r.Header, the keys met in the order `order`
HeaderLoop(in, ph, r, order, i) ==
  IF i > Len(order) THEN in
  ELSE HeaderLoop(IF HeaderMatches(order[i], Name(ph))
                  THEN Replace(in, ph, Join(r.Header[order[i]], <<",">>))
                  ELSE in,
                  ph, r, order, i + 1)

\* if placeholder[0][1] == '>' { ... }
HeaderBranch(in, ph, r, order) ==
  IF ph[2] = ">" THEN HeaderLoop(in, ph, r, order, 1) ELSE in

\* if placeholder[0][1] == '~' { ... }
CookieBranch(in, ph, r) ==
  IF ph[2] = "~" /\ Cookie(r, Name(ph)).ok
  THEN Replace(in, ph, Cookie(r, Name(ph)).Value)
  ELSE in

\* if placeholder[0][1] == '?' { ... }
QueryBranch(in, ph, r) ==
  IF ph[2] = "?" THEN Replace(in, ph, QueryGet(r.RawQuery, Name(ph))) ELSE in

\* "Numbered Regex matches": (\d+) is matched against the one character
\* placeholder[0][1], which Atoi then always parses; reflect.Value.Index
\* panics on the zero Value (no "regexMatches" in the context), on a map and
\* on an index outside 0..Len-1
NumberedBranch(in, ph, r) ==
  IF ph[2] \notin Digits THEN Ok(in)
  ELSE LET index == DigitVal(ph[2])
       IN IF r.Matches.kind # "slice" THEN Panic
          ELSE IF index - 1 < 0 THEN Panic
          ELSE IF index - 1 >= Len(r.Matches.items) THEN Panic
          ELSE Ok(Replace(in, ph, r.Matches.items[index]))

\* "Named regex matches": ([a-zA-Z]+[0-9]*) is matched, unanchored, against
\* the text between the braces, so it matches whenever that text holds a
\* letter; the keys of a map are distinct and compared exactly, so the order
\* in which MapRange meets them does not matter
NamedBranch(in, ph, r) ==
  IF /\ \E i \in 1..Len(Body(ph)) : Body(ph)[i] \in Letters
     /\ r.Matches.kind = "map"
     /\ Body(ph) \in DOMAIN r.Matches.entries
  THEN Replace(in, ph, r.Matches.entries[Body(ph)])
  ELSE in

\* one pass through the body of "for _, placeholder := range placeholders"
LoopBody(in, ph, r, order) ==
  LET lab == LabelBranch(KeywordSwitch(in, ph, r), ph, r)
  IN IF lab.st # "ok" THEN lab
     ELSE LET num == NumberedBranch(
                       QueryBranch(
                         CookieBranch(
                           HeaderBranch(lab.input, ph, r, order), ph, r),
                         ph, r),
                       ph, r)
          IN IF num.st # "ok" THEN num
             ELSE Ok(NamedBranch(num.input, ph, r))

PathToken_ZeroBased(k) ==
  <<"{", "$">> \o Itoa(k) \o <<"}">>

\* fmt.Sprintf("{$%d}", k+1), k the 0-based index of the range
PathToken(k) ==
  <<"{", "$">> \o Itoa(k + 1) \o <<"}">>

\* the orders in which a range over the header map may meet its keys
Orders(header) ==
  { o \in [1..Cardinality(DOMAIN header) -> DOMAIN header] :
      \A i, j \in DOMAIN o : i # j => o[i] # o[j] }

\* ------------------------------------------------------------------------
\* The inputs of the model: templates and requests
\* ------------------------------------------------------------------------

\* the most tokens and literals a composed template is made of
MaxTokens == 2

NoHeader ==
  [key \in {} |-> <<>>]

NoMatches ==
  [kind |-> "nil", items |-> <<>>, entries |-> <<>>]

SliceMatches(items) ==
  [kind |-> "slice", items |-> items, entries |-> <<>>]

MapMatches(entries) ==
  [kind |-> "map", items |-> <<>>, entries |-> entries]

\* GET /d/f?q=v with Host: ab.cd:80, no header, no cookie, no credentials
\* and no "regexMatches" in its context
PlainRequest ==
  [Method |-> <<"G","E","T">>,
   Host |-> <<"a","b",".","c","d",":","8","0">>,
   Path |-> <<"/","d","/","f">>,
   RawQuery |-> <<"q","=","v">>,
   URLHost |-> <<>>,
   Header |-> NoHeader,
   Cookies |-> <<>>,
   Auth |-> [ok |-> FALSE, user |-> <<>>],
   Matches |-> NoMatches]

\* header Ab: 1 / Ab: 2, cookie c=v, user u, one positional capture
FullRequest ==
  [PlainRequest EXCEPT
     !.Header = (<<"A","b">> :> << <<"1">>, <<"2">> >>),
     !.Cookies = << [Name |-> <<"c">>, Value |-> <<"v">>] >>,
     !.Auth = [ok |-> TRUE, user |-> <<"u">>],
     !.Matches = SliceMatches(<< <<"m">> >>)]

\* a header map that holds the keys "Ab" and "ab" (a Header is a plain map:
\* only Header.Set and the server's reader canonicalise keys), a one-label
\* Host without port, named captures
TwoKeysRequest ==
  [PlainRequest EXCEPT
     !.Host = <<"a","b">>,
     !.Header = (<<"A","b">> :> << <<"1">> >>) @@ (<<"a","b">> :> << <<"2">> >>),
     !.Matches = MapMatches((<<"n","m">> :> <<"w">>) @@ (<<"a","b">> :> <<"y">>))]

\* a request whose path, query parameter, header, cookie and capture hold
\* placeholder syntax: GET /%7Bhost%7D?q=%7Bhost%7D, Cookie: c={$1}
TokensInRequest ==
  [PlainRequest EXCEPT
     !.Path = <<"/">> \o Tok(kwHost),
     !.RawQuery = <<"q","=","%","7","B">> \o kwHost \o <<"%","7","D">>,
     !.Header = (<<"A","b">> :> << Tok(kwHost) >>),
     !.Cookies = << [Name |-> <<"c">>, Value |-> <<"{","$","1","}">>] >>,
     !.Matches = SliceMatches(<< Tok(kwHost) >>)]

\* an absolute-form request (URL.Host h:8) with ten positional captures
\* m1 .. m10
TenCapturesRequest ==
  [PlainRequest EXCEPT
     !.URLHost = <<"h",":","8">>,
     !.Matches = SliceMatches([i \in 1..10 |-> <<"m">> \o Itoa(i)])]

\* the calls of the model: a request and the pathSlice given with it
Inputs ==
  { [r |-> PlainRequest, pathSlice |-> <<>>],
    [r |-> FullRequest, pathSlice |-> << <<"s">> >>],
    [r |-> TwoKeysRequest, pathSlice |-> << <<"s">>, <<"t">> >>],
    [r |-> TokensInRequest, pathSlice |-> << <<"s">> >>],
    [r |-> TenCapturesRequest, pathSlice |-> << <<"{","$","2","}">>, <<"t">> >>] }

Keywords ==
  { kwUri, kwDir, kwFile, kwHost, kwHostonly, kwMethod, kwPath, kwPathEscaped,
    kwPort, kwQuery, kwQueryEscaped, kwUriEscaped, kwUser }

\* the pieces templates are composed of
CorePieces ==
  { Tok(kwHost), Tok(kwPath), Tok(kwLabel \o <<"1">>), Tok(kwLabel \o <<"3">>),
    Tok(<<">","a","b">>), Tok(<<"~","c">>), Tok(<<"1">>),
    <<"{","$","1","}">>, <<"{","$","2","}">>, <<"x">> }

\* templates of one piece: every form of token, and {{host}}
SinglePieces ==
  { Tok(kw) : kw \in Keywords }
  \cup { Tok(kwLabel \o n) : n \in {<<"0">>, <<"1">>, <<"2">>, <<"3">>, <<>>} }
  \cup { Tok(<<">","a","b">>), Tok(<<">","z","z">>),
         Tok(<<"~","c">>), Tok(<<"~","z">>),
         Tok(<<"?","q">>), Tok(<<"?","z">>),
         Tok(<<"0">>), Tok(<<"1">>), Tok(<<"2">>), Tok(<<"1","0">>),
         Tok(<<"1","a">>), Tok(<<"n","m">>), Tok(<<"z","z">>),
         <<"{","$","1","}">>, <<"{","$","2","}">>, <<"{","$","3","}">>,
         <<"x">>, Tok(Tok(kwHost)) }

RECURSIVE Flatten(_)
Flatten(pieces) ==
  IF Len(pieces) = 0 THEN <<>> ELSE Head(pieces) \o Flatten(Tail(pieces))

Templates ==
  SinglePieces
  \cup { Flatten(p) : p \in UNION { [1..n -> CorePieces] : n \in 0..MaxTokens } }

\* ------------------------------------------------------------------------
\* State
\* ------------------------------------------------------------------------

VARIABLES
  template,      \* the input string of the first call
  req,           \* r
  pathSlice,     \* pathSlice
  input,         \* the local variable input of the running call
  placeholders,  \* the matches the first loop has still to visit
  k,             \* the 0-based index the second loop visits next
  cur,           \* placeholder[0] of the last pass through the first loop
  prev,          \* input before the last pass through either loop
  stepped,       \* the last step of the running call
  pc,            \* "scan", "loop", "path", "done" (returned) or "panic"
  ret,           \* the values returned: [out, err]
  call,          \* 1: the first call, 2: the call after it
  mode,          \* what the second call is given: "same" or "output"
  first,         \* how the first call ended: [pc, out, err]
  directive,     \* parse: the lines of the txtdirect block, as given
  block,         \* parse: the lines c.NextBlock() has still to yield
  enable,        \* parse: var enable []string
  opts,          \* parse: redirect, resolver, logfile, gomods, prometheus, tor
  allOptions,    \* var allOptions
  ppc,           \* parse: "idle", "block" or "done"
  config         \* parse: the values returned: [Enable, ..., err]

renderVars ==
  <<template, req, pathSlice, input, placeholders, k, cur, prev, stepped,
    pc, ret, call, mode, first>>

parseVars ==
  <<directive, block, enable, opts, allOptions, ppc, config>>

vars ==
  <<template, req, pathSlice, input, placeholders, k, cur, prev, stepped,
    pc, ret, call, mode, first,
    directive, block, enable, opts, allOptions, ppc, config>>

NoRet ==
  [out |-> <<>>, err |-> "nil"]

NoFirst ==
  [pc |-> "none", out |-> <<>>, err |-> "nil"]

\* ------------------------------------------------------------------------
\* parsePlaceholders
\* ------------------------------------------------------------------------

\* placeholders := PlaceholderRegex.FindAllStringSubmatch(input, -1)
Scan ==
  /\ pc = "scan"
  /\ placeholders' = PlaceholderRegex(input)
  /\ pc' = IF Len(placeholders') = 0 THEN "path" ELSE "loop"
  /\ stepped' = "scan"
  /\ UNCHANGED <<template, req, pathSlice, input, k, cur, prev, ret, call,
                 mode, first>>
  /\ UNCHANGED parseVars

\* one pass through the first loop, for the next match; the range over
\* r.Header meets the keys in an order the runtime chooses
LoopIteration ==
  /\ pc = "loop"
  /\ \E order \in Orders(req.Header) :
       LET res == LoopBody(input, Head(placeholders), req, order)
       IN /\ input' = IF res.st = "ok" THEN res.input ELSE input
          /\ pc' = IF res.st = "panic" THEN "panic"
                   ELSE IF res.st = "error" THEN "done"
                   ELSE IF Len(placeholders) = 1 THEN "path"
                   ELSE "loop"
          /\ ret' = IF res.st = "error" THEN [out |-> <<>>, err |-> res.err]
                    ELSE ret
  /\ cur' = Head(placeholders)
  /\ prev' = input
  /\ placeholders' = Tail(placeholders)
  /\ stepped' = "iter"
  /\ UNCHANGED <<template, req, pathSlice, k, call, mode, first>>
  /\ UNCHANGED parseVars

\* one pass through "for k, v := range pathSlice"
PathIteration ==
  /\ pc = "path"
  /\ k < Len(pathSlice)
  /\ input' = Replace(input, PathToken(k), pathSlice[k + 1])
  /\ prev' = input
  /\ k' = k + 1
  /\ stepped' = "path"
  /\ UNCHANGED <<template, req, pathSlice, placeholders, cur, pc, ret, call,
                 mode, first>>
  /\ UNCHANGED parseVars

\* return input, nil
Return ==
  /\ pc = "path"
  /\ k = Len(pathSlice)
  /\ ret' = [out |-> input, err |-> "nil"]
  /\ pc' = "done"
  /\ stepped' = "return"
  /\ UNCHANGED <<template, req, pathSlice, input, placeholders, k, cur, prev,
                 call, mode, first>>
  /\ UNCHANGED parseVars

\* a second call with the arguments of the first
RenderAgain ==
  /\ call = 1
  /\ pc \in {"done", "panic"}
  /\ first' = [pc |-> pc, out |-> ret.out, err |-> ret.err]
  /\ call' = 2
  /\ mode' = "same"
  /\ input' = template
  /\ placeholders' = <<>>
  /\ k' = 0
  /\ cur' = <<>>
  /\ prev' = <<>>
  /\ stepped' = "none"
  /\ pc' = "scan"
  /\ ret' = NoRet
  /\ UNCHANGED <<template, req, pathSlice>>
  /\ UNCHANGED parseVars

\* a second call on the string the first returned without error, with the
\* same request and pathSlice
RenderOutput ==
  /\ call = 1
  /\ pc = "done"
  /\ ret.err = "nil"
  /\ first' = [pc |-> pc, out |-> ret.out, err |-> ret.err]
  /\ call' = 2
  /\ mode' = "output"
  /\ input' = ret.out
  /\ placeholders' = <<>>
  /\ k' = 0
  /\ cur' = <<>>
  /\ prev' = <<>>
  /\ stepped' = "none"
  /\ pc' = "scan"
  /\ ret' = NoRet
  /\ UNCHANGED <<template, req, pathSlice>>
  /\ UNCHANGED parseVars

\* ------------------------------------------------------------------------
\* parse
\* ------------------------------------------------------------------------

RECURSIVE FirstIndex(_, _, _)
\* the first index from i on at which tmp holds x, 0 without one
FirstIndex(tmp, x, i) ==
  IF i > Len(tmp) THEN 0
  ELSE IF tmp[i] = x THEN i
  ELSE FirstIndex(tmp, x, i + 1)

\* the inner loop: tmp[i] = tmp[len(tmp)-1]; tmp = tmp[:len(tmp)-1]; break
RemoveOne(tmp, toRemove) ==
  LET i == FirstIndex(tmp, toRemove, 1)
  IN IF i = 0 THEN tmp
     ELSE SubSeq([tmp EXCEPT ![i] = tmp[Len(tmp)]], 1, Len(tmp) - 1)

RECURSIVE removeArrayFromArray(_, _)
\* tmp is a copy of array: array itself is not written
removeArrayFromArray(array, toBeRemoved) ==
  IF Len(toBeRemoved) = 0 THEN array
  ELSE removeArrayFromArray(RemoveOne(array, Head(toBeRemoved)),
                            Tail(toBeRemoved))

\* var allOptions = []string{"host", "path", "gometa", "www"}
AllOptionsInit ==
  <<"host", "path", "gometa", "www">>

NilSlice ==
  [nil |-> TRUE, list |-> <<>>]

Slice(list) ==
  [nil |-> FALSE, list |-> list]

NoOpts ==
  [redirect |-> "", resolver |-> "", logfile |-> "",
   gomods |-> FALSE, prometheus |-> FALSE, tor |-> FALSE]

\* Config{}, c.ArgErr()
ArgErr ==
  [Enable |-> <<>>, opts |-> NoOpts, err |-> TRUE]

\* one pass through "for c.NextBlock()": the switch on the option.  st is
\* "ok" or "error" (return Config{}, c.ArgErr())
ParseOption(line, en, o, all) ==
  CASE line.option = "disable" ->
         IF ~en.nil \/ Len(line.args) = 0
         THEN [st |-> "error", enable |-> en, opts |-> o]
         ELSE [st |-> "ok", enable |-> Slice(removeArrayFromArray(all, line.args)),
               opts |-> o]
    [] line.option = "enable" ->
         IF ~en.nil \/ Len(line.args) = 0
         THEN [st |-> "error", enable |-> en, opts |-> o]
         ELSE [st |-> "ok", enable |-> Slice(line.args), opts |-> o]
    [] line.option = "redirect" ->
         IF Len(line.args) # 1
         THEN [st |-> "error", enable |-> en, opts |-> o]
         ELSE [st |-> "ok", enable |-> en,
               opts |-> [o EXCEPT !.redirect = line.args[1]]]
    [] line.option = "resolver" ->
         IF Len(line.args) # 1
         THEN [st |-> "error", enable |-> en, opts |-> o]
         ELSE [st |-> "ok", enable |-> en,
               opts |-> [o EXCEPT !.resolver = line.args[1]]]
    [] line.option = "logfile" ->
         [st |-> "ok", enable |-> en,
          opts |-> [o EXCEPT !.logfile = IF Len(line.args) > 0
                                         THEN line.args[1] ELSE "stdout"]]
    [] line.option = "gomods" ->
         [st |-> "ok", enable |-> en, opts |-> [o EXCEPT !.gomods = TRUE]]
    [] line.option = "prometheus" ->
         [st |-> "ok", enable |-> en, opts |-> [o EXCEPT !.prometheus = TRUE]]
    [] line.option = "tor" ->
         [st |-> "ok", enable |-> en, opts |-> [o EXCEPT !.tor = TRUE]]
    [] OTHER -> [st |-> "error", enable |-> en, opts |-> o]

\* the next line of the block
ParseLine ==
  /\ ppc = "block"
  /\ Len(block) > 0
  /\ LET res == ParseOption(Head(block), enable, opts, allOptions)
     IN /\ enable' = res.enable
        /\ opts' = res.opts
        /\ ppc' = IF res.st = "error" THEN "done" ELSE "block"
        /\ config' = IF res.st = "error" THEN ArgErr ELSE config
  /\ block' = Tail(block)
  /\ UNCHANGED <<directive, allOptions>>
  /\ UNCHANGED renderVars

\* after the loop: "If nothing is specified, enable everything", and the
\* Config returned (SetDefaults of gomods, prometheus and tor and the log
\* output parseLogfile sets are outside the state modelled here)
ParseFinish ==
  /\ ppc = "block"
  /\ Len(block) = 0
  /\ enable' = IF enable.nil THEN Slice(allOptions) ELSE enable
  /\ config' = [Enable |-> enable'.list, opts |-> opts, err |-> FALSE]
  /\ ppc' = "done"
  /\ UNCHANGED <<directive, block, opts, allOptions>>
  /\ UNCHANGED renderVars

\* the most lines a txtdirect block of the model holds
MaxLines == 2

\* the most arguments a disable line of the model holds
MaxArgs == 2

OptionNames ==
  {"host", "path", "gometa", "www"}

\* the lines of a block: the option and the arguments that follow it (a
\* gomods, prometheus or tor line here opens no { } block of its own)
Lines ==
  { [option |-> "disable", args |-> a] :
      a \in UNION { [1..n -> OptionNames \cup {"other"}] : n \in 0..MaxArgs } }
  \cup { [option |-> "enable", args |-> a] :
           a \in {<<>>, <<"host">>, <<"www", "host">>} }
  \cup { [option |-> o, args |-> a] :
           o \in {"redirect", "resolver", "logfile"},
           a \in {<<>>, <<"x">>, <<"x", "y">>} }
  \cup { [option |-> o, args |-> <<>>] :
           o \in {"gomods", "prometheus", "tor", "wrong"} }

Directives ==
  UNION { [1..n -> Lines] : n \in 0..MaxLines }

\* ------------------------------------------------------------------------
\* Specifications
\* ------------------------------------------------------------------------

RenderIdle ==
  /\ template = <<>>
  /\ req = PlainRequest
  /\ pathSlice = <<>>
  /\ input = <<>>
  /\ placeholders = <<>>
  /\ k = 0
  /\ cur = <<>>
  /\ prev = <<>>
  /\ stepped = "none"
  /\ pc = "idle"
  /\ ret = NoRet
  /\ call = 0
  /\ mode = "none"
  /\ first = NoFirst

ParseIdle ==
  /\ directive = <<>>
  /\ block = <<>>
  /\ enable = NilSlice
  /\ opts = NoOpts
  /\ allOptions = AllOptionsInit
  /\ ppc = "idle"
  /\ config = [Enable |-> <<>>, opts |-> NoOpts, err |-> FALSE]

\* a call parsePlaceholders(template, r, pathSlice) is entered
Init ==
  /\ template \in Templates
  /\ \E in \in Inputs :
       /\ req = in.r
       /\ pathSlice = in.pathSlice
  /\ input = template
  /\ placeholders = <<>>
  /\ k = 0
  /\ cur = <<>>
  /\ prev = <<>>
  /\ stepped = "none"
  /\ pc = "scan"
  /\ ret = NoRet
  /\ call = 1
  /\ mode = "first"
  /\ first = NoFirst
  /\ ParseIdle

Next ==
  \/ Scan
  \/ LoopIteration
  \/ PathIteration
  \/ Return
  \/ RenderAgain
  \/ RenderOutput

Spec ==
  Init /\ [][Next]_vars

\* a call parse(c) is entered, c at the txtdirect directive
ParseInit ==
  /\ directive \in Directives
  /\ block = directive
  /\ enable = NilSlice
  /\ opts = NoOpts
  /\ allOptions = AllOptionsInit
  /\ ppc = "block"
  /\ config = [Enable |-> <<>>, opts |-> NoOpts, err |-> FALSE]
  /\ RenderIdle

ParseNext ==
  \/ ParseLine
  \/ ParseFinish

SpecParse ==
  ParseInit /\ [][ParseNext]_vars

\* ------------------------------------------------------------------------
\* Properties
\* ------------------------------------------------------------------------

\* the loop of the running call has just handled the token cur
Handled ==
  stepped = "iter"

\* the number of places at which t occurs in s
Count(s, t) ==
  Cardinality({ i \in 1..Len(s) : HasPrefixAt(s, i, t) })

\* a Host header without its trailing ":port"
HostWithoutPort(host) ==
  LET colon == LastIndex(host, <<":">>)
  IN IF colon # 0 /\ \A i \in (colon + 1)..Len(host) : host[i] \in Digits
     THEN SubSeq(host, 1, colon - 1)
     ELSE host

\* C1: when the loop handles a positional token {N} and the request carries
\* no capture sequence, or N is outside 1..len(captures), the call returns
\* an error and does not panic.
C1_PositionalErrorNotPanic ==
  (/\ Handled
   /\ AllDigits(Body(cur))
   /\ \/ req.Matches.kind # "slice"
      \/ AtoiVal(Body(cur)) \notin 1..Len(req.Matches.items))
  => (pc = "done" /\ ret.err # "nil")

\* C2: when the loop handles a cookie token {~name}, every occurrence of it
\* is replaced by the cookie's value, or by the empty string when the request
\* has no such cookie, and no error is returned.
C2_CookieValueOrEmpty ==
  (Handled /\ cur[2] = "~")
  => /\ pc \in {"loop", "path"}
     /\ input = Replace(prev, cur,
                        IF Cookie(req, Name(cur)).ok
                        THEN Cookie(req, Name(cur)).Value
                        ELSE <<>>)

\* C3: a token goes through the positional captures exactly when its whole
\* body is digits: a token {N} with 1 <= N <= len(captures), N of any number
\* of digits, is replaced by the N-th capture, and a token whose body is not
\* digits only never reaches the (panicking) index into the captures.
C3_NthCapture ==
  Handled
  => /\ (/\ AllDigits(Body(cur))
         /\ req.Matches.kind = "slice"
         /\ AtoiVal(Body(cur)) \in 1..Len(req.Matches.items))
        => /\ pc \in {"loop", "path"}
           /\ input = Replace(prev, cur, req.Matches.items[AtoiVal(Body(cur))])
     /\ ~AllDigits(Body(cur)) => pc # "panic"

\* {labelN} with N a number
IsLabelToken(ph) ==
  /\ HasPrefix(ph, <<"{","l","a","b","e","l">>)
  /\ AllDigits(SubSeq(ph, 7, Len(ph) - 1))

C5_Determinism ==
  (call = 2 /\ mode = "same" /\ pc \in {"done", "panic"})
  => /\ pc = first.pc
     /\ ret.out = first.out
     /\ ret.err = first.err

\* C6: a call on the output s of a call that succeeded, with the same
\* request and pathSlice, succeeds and returns s.
C6_Idempotence ==
  (call = 2 /\ mode = "output" /\ pc \in {"done", "panic"})
  => /\ pc = "done"
     /\ ret.err = "nil"
     /\ ret.out = first.out

C8_PathSegments ==
  /\ stepped = "path"
     => /\ Len(placeholders) = 0
        /\ k \in 1..Len(pathSlice)
        /\ input = Replace(prev, <<"{","$">> \o Itoa(k) \o <<"}">>, pathSlice[k])
        /\ \A j \in (Len(pathSlice) + 1)..(Len(pathSlice) + 2) :
             Count(input, <<"{","$">> \o Itoa(j) \o <<"}">>)
               >= Count(prev, <<"{","$">> \o Itoa(j) \o <<"}">>)
  /\ stepped = "return"
     => /\ Len(placeholders) = 0
        /\ k = Len(pathSlice)
        /\ ret = [out |-> input, err |-> "nil"]

\* {$1}{$2} with the one segment s gives s{$2}
C8_Witness ==
  /\ stepped = "return"
  /\ call = 1
  /\ template = <<"{","$","1","}","{","$","2","}">>
  /\ pathSlice = << <<"s">> >>
  /\ ret = [out |-> <<"s","{","$","2","}">>, err |-> "nil"]

\* allOptions without the entries of toDisable, in the order of allOptions
Without(all, toDisable) ==
  SelectSeq(all, LAMBDA o : o \notin Range(toDisable))

\* C9: parse without an enable and a disable line returns the full list
\* allOptions as the enabled list; with a line "disable D" it returns
\* allOptions without the entries of D, the others in the order of
\* allOptions; allOptions itself is not changed.
C9_EnabledList ==
  (ppc = "done" /\ ~config.err)
  => /\ allOptions = AllOptionsInit
     /\ (\A i \in 1..Len(directive) :
           directive[i].option \notin {"enable", "disable"})
        => config.Enable = AllOptionsInit
     /\ \A i \in 1..Len(directive) :
          directive[i].option = "disable"
          => config.Enable = Without(AllOptionsInit, directive[i].args)

RECURSIVE Simultaneous(_, _, _, _, _)
\* the template from i on, each token the scan finds replaced by what the
\* loop makes of that token alone, each {$K} with a segment by that segment
Simultaneous(s, i, r, segments, order) ==
  IF i > Len(s) THEN <<>>
  ELSE IF MatchEnd(s, i) # 0
  THEN LoopBody(SubSeq(s, i, MatchEnd(s, i)),
                SubSeq(s, i, MatchEnd(s, i)), r, order).input
       \o Simultaneous(s, MatchEnd(s, i) + 1, r, segments, order)
  ELSE IF \E j \in 1..Len(segments) :
            HasPrefixAt(s, i, <<"{","$">> \o Itoa(j) \o <<"}">>)
  THEN LET j == CHOOSE j \in 1..Len(segments) :
                  HasPrefixAt(s, i, <<"{","$">> \o Itoa(j) \o <<"}">>)
       IN segments[j]
          \o Simultaneous(s, i + Len(Itoa(j)) + 3, r, segments, order)
  ELSE <<s[i]>> \o Simultaneous(s, i + 1, r, segments, order)

\* C10: the output of a call that succeeds is the template with every token
\* of the one scan, and every {$K}, replaced at once by its own value: text
\* that a value brings in is in the output as it is.
C10_SinglePass ==
  (call = 1 /\ pc = "done" /\ ret.err = "nil")
  => \E order \in Orders(req.Header) :
       ret.out = Simultaneous(template, 1, req, pathSlice, order)

====
